---- MODULE Spec2Model ----
(***************************************************************************)
(* LayoutLearner: the adaptive lesson engine of internal/gamelogic and     *)
(* internal/dictionary, with the tview event loop and the goroutine that   *)
(* installs input capture functions.                                       *)
(*                                                                         *)
(* Characters are one-character strings, words and texts are sequences of  *)
(* characters.  float64 values (Accuracy, Score) are kept as exact         *)
(* fractions [n, d] in lowest terms with d > 0.                            *)
(***************************************************************************)
EXTENDS Integers, Sequences, FiniteSets, TLC

(***************************************************************************)
(* Bounds of the model.                                                    *)
(***************************************************************************)
\* key events delivered to the application in one run
MaxKeys == 5
\* Settings.NumChars (the source sets 5): size of the character subset
NumChars == 2
\* Settings.WordCount (the source sets 10): words per lesson
WordCount == 1

(***************************************************************************)
(* Settings of StartGame that the model keeps as in the source.            *)
(***************************************************************************)
MinWordLength == 3
MaxWordLength == 5
TargetCPM == 250

\* the word file resources/words.txt, one word per line
Corpus ==
  << <<"A", "b", "a">>, <<"a", "b", "a">>, <<"a", "b", "b", "a">>,
     <<"A", "B", "B", "A">>, <<"c", "a", "b">>, <<"C", "a", "b">>,
     <<"C", "A", "B">>, <<"c", "a", "B">> >>

\* milliseconds between a character coming into play and its keystroke
ElapsedMs == {100, 700}

Space == " "

(***************************************************************************)
(* float64 arithmetic, as exact fractions.                                 *)
(***************************************************************************)
Abs(x) == IF x < 0 THEN -x ELSE x

RECURSIVE GCD(_, _)
GCD(a, b) == IF b = 0 THEN a ELSE GCD(b, a % b)

Frac(n, d) ==
  LET g == GCD(Abs(n), d)
  IN  [n |-> n \div g, d |-> d \div g]

FromInt(i) == [n |-> i, d |-> 1]
FAdd(x, y) == Frac(x.n * y.d + y.n * x.d, x.d * y.d)
FSub(x, y) == Frac(x.n * y.d - y.n * x.d, x.d * y.d)
FMul(x, y) == Frac(x.n * y.n, x.d * y.d)
FLess(x, y) == x.n * y.d < y.n * x.d
FLeq(x, y) == x.n * y.d <= y.n * x.d

\* Settings.AccuracyWeight and Settings.TimeWeight, both 0.5
AccuracyWeight == Frac(1, 2)
TimeWeight == Frac(1, 2)

(***************************************************************************)
(* shared.CharacterAccuracy and the map gameCtx.CharacterAccuracies.       *)
(***************************************************************************)
\* the zero value a map read yields for an absent key
ZeroAccuracy ==
  [Correct |-> 0, Attempts |-> 0, Accuracy |-> FromInt(0), TotalTime |-> 0,
   AverageTime |-> 0, Score |-> FromInt(0)]

\* the entry newGame seeds for a character without one
SeedAccuracy == [ZeroAccuracy EXCEPT !.Score = FromInt(-1)]

Lookup(m, char) == IF char \in DOMAIN m THEN m[char] ELSE ZeroAccuracy

Store(m, char, ca) ==
  [c \in DOMAIN m \cup {char} |-> IF c = char THEN ca ELSE m[c]]

EmptyMap == [c \in {} |-> ZeroAccuracy]

\* updateAccuracy lines 189-199 with Settings.TargetCPM = targetCPM.
\* "60000 / TargetCPM" is a division of integers, which panics on 0; the
\* division for speedScore is one of float64, which gives NaN for 0/0 and
\* +Inf for x/0 with x > 0, and the score is then NaN or -Inf.
ScoreWith(targetCPM, accuracy, averageTime) ==
  IF targetCPM = 0 THEN [kind |-> "panic"]
  ELSE LET targetSpeedMs == 60000 \div targetCPM
           lowerBound == targetSpeedMs \div 2
           speed == IF averageTime < lowerBound THEN lowerBound
                    ELSE averageTime
       IN  IF targetSpeedMs - lowerBound = 0
           THEN [kind |-> IF speed - lowerBound = 0 THEN "NaN" ELSE "-Inf"]
           ELSE [kind |-> "number",
                 value |->
                   FAdd(FMul(accuracy, AccuracyWeight),
                        FMul(FSub(FromInt(1),
                                  Frac(speed - lowerBound,
                                       targetSpeedMs - lowerBound)),
                             TimeWeight))]

\* the score of updateAccuracy with the setting of StartGame. AverageTime
\* is read before the handler adds this keystroke's time.
ScoreOf(accuracy, averageTime) ==
  ScoreWith(TargetCPM, accuracy, averageTime).value

\* updateAccuracy without "ca.Attempts++" on a success
updateAccuracy_NoAttempt(m, char, success) ==
  LET ca0 == Lookup(m, char)
      attempts == IF success THEN ca0.Attempts ELSE ca0.Attempts + 1
      correct == IF success THEN ca0.Correct + 1 ELSE ca0.Correct
      accuracy == IF attempts > 0 THEN Frac(correct, attempts) ELSE FromInt(0)
  IN  Store(m, char,
            [ca0 EXCEPT !.Attempts = attempts, !.Correct = correct,
                        !.Accuracy = accuracy,
                        !.Score = ScoreOf(accuracy, ca0.AverageTime)])

\* updateAccuracy taking the accuracy from the counts before the attempt
updateAccuracy_StaleAccuracy(m, char, success) ==
  LET ca0 == Lookup(m, char)
      attempts == ca0.Attempts + 1
      correct == IF success THEN ca0.Correct + 1 ELSE ca0.Correct
      accuracy == IF ca0.Attempts > 0 THEN Frac(ca0.Correct, ca0.Attempts)
                  ELSE FromInt(0)
  IN  Store(m, char,
            [ca0 EXCEPT !.Attempts = attempts, !.Correct = correct,
                        !.Accuracy = accuracy,
                        !.Score = ScoreOf(accuracy, ca0.AverageTime)])

\* updateAccuracy counting an attempt only when the key was right
updateAccuracy_SuccessOnly(m, char, success) ==
  LET ca0 == Lookup(m, char)
      attempts == IF success THEN ca0.Attempts + 1 ELSE ca0.Attempts
      correct == IF success THEN ca0.Correct + 1 ELSE ca0.Correct
      accuracy == IF attempts > 0 THEN Frac(correct, attempts) ELSE FromInt(0)
  IN  Store(m, char,
            [ca0 EXCEPT !.Attempts = attempts, !.Correct = correct,
                        !.Accuracy = accuracy,
                        !.Score = ScoreOf(accuracy, ca0.AverageTime)])

updateAccuracy(m, char, success) ==
  LET ca0 == Lookup(m, char)
      attempts == ca0.Attempts + 1
      correct == IF success THEN ca0.Correct + 1 ELSE ca0.Correct
      accuracy == IF attempts > 0 THEN Frac(correct, attempts) ELSE FromInt(0)
  IN  Store(m, char,
            [ca0 EXCEPT !.Attempts = attempts, !.Correct = correct,
                        !.Accuracy = accuracy,
                        !.Score = ScoreOf(accuracy, ca0.AverageTime)])

\* getPriorityCharacter ranges over the whole map in an arbitrary order and
\* keeps the first strictly smaller score below 1.0: any non-space key of
\* the least score below 1.0 can be returned, currentChars[0] when none is.
getPriorityCharacter(m, currentChars) ==
  LET below == {c \in DOMAIN m \ {Space} : FLess(m[c].Score, FromInt(1))}
  IN  IF below = {}
      THEN {currentChars[1]}
      ELSE {c \in below : \A o \in below : FLeq(m[c].Score, m[o].Score)}

(***************************************************************************)
(* internal/dictionary.  rand.Intn is a choice: an operator that draws     *)
(* random numbers is the set of the results it can return.                 *)
(***************************************************************************)
Range(s) == {s[i] : i \in 1..Len(s)}

\* strings.ToLower on the characters of the word file
ToLower(ch) ==
  CASE ch = "A" -> "a" [] ch = "B" -> "b" [] ch = "C" -> "c" [] OTHER -> ch

LowerWord(w) == [i \in 1..Len(w) |-> ToLower(w[i])]

\* characterOccurences[char] after the scan of the file
RECURSIVE Occurrences(_, _)
Occurrences(corpus, char) ==
  IF corpus = <<>> THEN 0
  ELSE Cardinality({i \in 1..Len(Head(corpus)) : ToLower(Head(corpus)[i]) = char})
       + Occurrences(Tail(corpus), char)

\* the keys of the occurrence map in any order, without the sort
GetCharacterPriority_Unsorted(corpus) ==
  LET chars == UNION {Range(LowerWord(corpus[i])) : i \in 1..Len(corpus)}
      n == Cardinality(chars)
  IN  {s \in [1..n -> chars] : \A i, j \in 1..n : i # j => s[i] # s[j]}

\* GetCharacterPriority: the keys of the occurrence map, sorted by
\* sort.Slice on a descending count. The map is ranged over in an arbitrary
\* order and the sort is not stable: characters of equal count come in any
\* order.
GetCharacterPriority(corpus) ==
  LET chars == UNION {Range(LowerWord(corpus[i])) : i \in 1..Len(corpus)}
      n == Cardinality(chars)
  IN  {s \in [1..n -> chars] :
         /\ \A i, j \in 1..n : i # j => s[i] # s[j]
         /\ \A i, j \in 1..n :
              i < j => Occurrences(corpus, s[i]) >= Occurrences(corpus, s[j])}

\* the zero rune of "var previousCharacter rune" and "var excludeChar rune"
NoRune == "NUL"

\* getRandomCharacter: the characters it can return, {Space} when none is
\* available
getRandomCharacter(chars, charsUsed, maxUsage, exclude) ==
  LET availableChars ==
        {chars[i] : i \in {j \in 1..Len(chars) :
                             /\ chars[j] # exclude
                             /\ charsUsed[chars[j]] < maxUsage}}
  IN  IF availableChars # {} THEN availableChars ELSE {Space}

\* the loop of GenerateWord from index i on
RECURSIVE GenerateFrom(_, _, _, _, _, _, _, _, _)
GenerateFrom(chars, priorityCharacter, length, priorityPosition, i, word, charsUsed, previousCharacter, charInARow) ==
  IF i >= length THEN {word}
  ELSE IF i = priorityPosition /\ previousCharacter # priorityCharacter
  THEN GenerateFrom(chars, priorityCharacter, length, priorityPosition, i + 1,
                    Append(word, priorityCharacter),
                    [charsUsed EXCEPT ![priorityCharacter] = @ + 1],
                    previousCharacter, charInARow)
  ELSE LET excludeChar == IF charInARow = 2 THEN previousCharacter ELSE NoRune
       IN  UNION {
             IF char = Space THEN {word}
             ELSE GenerateFrom(chars, priorityCharacter, length,
                               priorityPosition, i + 1, Append(word, char),
                               [charsUsed EXCEPT ![char] = @ + 1], char,
                               IF char = previousCharacter
                               THEN charInARow + 1 ELSE 1)
             : char \in getRandomCharacter(chars, charsUsed, length \div 2,
                                           excludeChar)}

\* rand.Intn panics on an argument that is not positive
GenerateWordPanics(minLength, maxLength) ==
  maxLength - minLength <= 0 \/ minLength <= 0

\* "length := rand.Intn(maxLength-minLength) + minLength"
Lengths(minLength, maxLength) == minLength..(maxLength - 1)

\* the position drawn from 0..length, one past the last index included
PriorityPositions_Beyond(length) == 0..length

\* "priorityPosition := rand.Intn(length)"
PriorityPositions(length) == 0..(length - 1)

\* GenerateWord once length and priorityPosition are drawn: the loop from
\* its first round, with charsUsed zero, previousCharacter the zero rune and
\* charInARow 0
GenerateWordWith(chars, priorityCharacter, length, priorityPosition) ==
  GenerateFrom(chars, priorityCharacter, length, priorityPosition, 0, <<>>,
               [c \in Range(chars) \cup {priorityCharacter} |-> 0],
               NoRune, 0)

\* GenerateWord: the words it can return
GenerateWord(chars, priorityCharacter, minLength, maxLength) ==
  UNION {UNION {GenerateWordWith(chars, priorityCharacter, length,
                                 priorityPosition)
                : priorityPosition \in PriorityPositions(length)}
         : length \in Lengths(minLength, maxLength)}

\* the scan without the test of priorityFound
MatchingWords_AnyPriority(corpus, chars, priorityChar, minLength, maxLength) ==
  LET Passes(word) ==
        /\ ~(Len(word) > maxLength \/ Len(word) < minLength)
        /\ \A i \in 1..Len(word) : word[i] \in Range(chars)
  IN  SelectSeq([i \in 1..Len(corpus) |-> LowerWord(corpus[i])], Passes)

\* the scan of GetWordsFromChars: the words of the file that pass
MatchingWords(corpus, chars, priorityChar, minLength, maxLength) ==
  LET Passes(word) ==
        /\ ~(Len(word) > maxLength \/ Len(word) < minLength)
        /\ \A i \in 1..Len(word) : word[i] \in Range(chars)
        /\ \E i \in 1..Len(word) : word[i] = priorityChar
  IN  SelectSeq([i \in 1..Len(corpus) |-> LowerWord(corpus[i])], Passes)

\* "for i := 0; i < 4 - len(words); i++ { words = append(words, ...) }":
\* the bound is read again on every round, after words has grown
\* FillRounds(n, i) is the number of words the loop still appends when
\* len(words) is n at the test of round i.
RECURSIVE FillRounds(_, _)
FillRounds(n, i) ==
  IF i < 4 - n THEN 1 + FillRounds(n + 1, i + 1) ELSE 0

\* the lists the loop can leave in words, each appended word being any of
\* generated
FillWords(words, generated) ==
  {words \o [k \in 1..Len(added) |-> added[k]] :
     added \in [1..FillRounds(Len(words), 0) -> generated]}

\* a failing rand.Intn reaches GetWordsFromChars only through GenerateWord
GetWordsFromCharsPanics(corpus, chars, priorityChar, minLength, maxLength) ==
  /\ Len(MatchingWords(corpus, chars, priorityChar, minLength, maxLength)) < 4
  /\ GenerateWordPanics(minLength, maxLength)

\* GetWordsFromChars up to the selection: the lists "words" it can hold
\* after "if len(words) < 4 { ... }"
WordPools(corpus, chars, priorityChar, minLength, maxLength) ==
  LET matching ==
        MatchingWords(corpus, chars, priorityChar, minLength, maxLength)
  IN  IF Len(matching) < 4
      THEN FillWords(matching,
                     GenerateWord(chars, priorityChar, minLength, maxLength))
      ELSE {matching}

\* "selectedWords[i] = words[rand.Intn(len(words))]", amount times
SelectWords(words, amount) ==
  {[k \in 1..amount |-> words[pick[k]]] :
     pick \in [1..amount -> 1..Len(words)]}

\* GetWordsFromChars on a readable file: the word lists it can return
GetWordsFromChars(corpus, chars, priorityChar, minLength, maxLength, amount) ==
  UNION {SelectWords(words, amount) :
           words \in WordPools(corpus, chars, priorityChar, minLength,
                               maxLength)}

\* "words += fmt.Sprintf("%s ", word)" over the word list
RECURSIVE JoinWords(_)
JoinWords(wordsList) ==
  IF wordsList = <<>> THEN <<>>
  ELSE Head(wordsList) \o <<Space>> \o JoinWords(Tail(wordsList))

(***************************************************************************)
(* State: gameCtx and graphicsCtx of internal/gamelogic, the goroutine of  *)
(* StartGame, the tview application and the file "accuracies".             *)
(***************************************************************************)
VARIABLES
  Words,               \* gameCtx.Words
  CurrentCharIndex,    \* gameCtx.CurrentCharIndex
  CharacterPriorities, \* gameCtx.CharacterPriorities
  PriorityCharacter,   \* gameCtx.PriorityCharacter
  CurrentChars,        \* gameCtx.CurrentChars
  CharacterAccuracies, \* gameCtx.CharacterAccuracies
  Correct,             \* gameCtx.Correct
  Incorrect,           \* gameCtx.Incorrect
  Started,             \* gameCtx.Started
  screen,              \* what graphicsCtx.MainTextView shows, with the
                       \* accuracy printed by ShowEndScreen
  inputCapture,        \* the function set by App.SetInputCapture
  updates,             \* the functions queued by App.QueueUpdate
  stopped,             \* App.Stop() was called
  pc,                  \* where the goroutine of StartGame and App.Run is
  caller,              \* the function that called newGame
  sendVal,             \* the value of the send this goroutine is blocked in
  coord,               \* where the goroutine of StartGame lines 96-103 is
  changeFunc,          \* its local changeFunc
  accuracies,          \* the content of the file "accuracies"
  io,                  \* what the file system did on the last save
  keys,                \* key events delivered so far
  last,                \* what the last call of a handler or of newGame did
  clean,               \* every key of this lesson so far was the expected
                       \* character
  gen                  \* a call of one function on its own: its
                       \* arguments, its random choices and what it returned

gameVars ==
  <<Words, CurrentCharIndex, PriorityCharacter, CurrentChars,
    CharacterAccuracies, Correct, Incorrect, Started>>

vars ==
  <<Words, CurrentCharIndex, CharacterPriorities, PriorityCharacter,
    CurrentChars, CharacterAccuracies, Correct, Incorrect, Started, screen,
    inputCapture, updates, stopped, pc, caller, sendVal, coord, changeFunc,
    accuracies, io, keys, last, clean, gen>>

gameInputHandler == "gameInputHandler"
endScreenInputHandler == "endScreenInputHandler"

\* tcell key events: Key() and Rune(). The rune of a key that is no
\* character is none of the characters of a lesson.
KeyEvents ==
  {[key |-> "Escape", rune |-> "ESC"], [key |-> "Backspace", rune |-> "BS"],
   [key |-> "Enter", rune |-> "CR"]}
  \cup {[key |-> "Rune", rune |-> r] : r \in {"a", "b", "c", "z", Space}}

\* the maps StartGame can load: none when the file is absent, else what an
\* earlier run saved: here the file of a run that was left at once
LoadedAccuracies ==
  {EmptyMap, ("a" :> SeedAccuracy) @@ ("b" :> SeedAccuracy)}

\* the file of an earlier run over another word file, in which y was typed
\* once and z was missed once
ForeignAccuracies ==
  {updateAccuracy(updateAccuracy(EmptyMap, "y", TRUE), "z", FALSE)}

\* the file "accuracies": not there, holding the JSON of a map, or cut
\* short by a failed write
FileAbsent == [state |-> "absent"]
FileOf(m) == [state |-> "written", content |-> m]
FileTruncated == [state |-> "truncated"]

\* StartGame up to the call of newGame, the file holding one of files
InitFrom(files) ==
  /\ CharacterPriorities \in GetCharacterPriority(Corpus)
  /\ CharacterAccuracies \in files
  /\ accuracies = IF CharacterAccuracies = EmptyMap THEN FileAbsent
                  ELSE FileOf(CharacterAccuracies)
  /\ Words = <<>>
  /\ CurrentCharIndex = 0
  /\ PriorityCharacter = NoRune
  /\ CurrentChars = <<>>
  /\ Correct = 0
  /\ Incorrect = 0
  /\ Started = FALSE
  /\ screen = [kind |-> "blank"]
  /\ inputCapture = gameInputHandler
  /\ updates = <<>>
  /\ stopped = FALSE
  /\ pc = "StartGame"
  /\ caller = "StartGame"
  /\ sendVal = "none"
  /\ coord = "recv"
  /\ changeFunc = "none"
  /\ io = "none"
  /\ keys = 0
  /\ last = "none"
  /\ clean = TRUE

\* the game calls GenerateWord only inside GetWordsFromChars
NoCall == [at |-> "none"]

Init == InitFrom(LoadedAccuracies) /\ gen = NoCall

InitForeign == InitFrom(ForeignAccuracies) /\ gen = NoCall

\* ShowEndScreen dividing in integers
ShowEndScreen_Truncated(correct, incorrect) ==
  [kind |-> "end",
   accuracy |-> IF correct + incorrect = 0 THEN "NaN"
                ELSE FromInt((correct * 100) \div (correct + incorrect))]

\* ShowEndScreen without the factor 100
ShowEndScreen_NoPercent(correct, incorrect) ==
  [kind |-> "end",
   accuracy |-> IF correct + incorrect = 0 THEN "NaN"
                ELSE Frac(correct, correct + incorrect)]

\* ShowEndScreen: the accuracy it prints. 0/0 in float64 is NaN.
ShowEndScreen(correct, incorrect) ==
  [kind |-> "end",
   accuracy |-> IF correct + incorrect = 0 THEN "NaN"
                ELSE Frac(correct * 100, correct + incorrect)]

\* SaveCharacterAccuracies: the file after the call and whether the call
\* returns an error. outcome is what the file system does: "ok", "create" when
\* os.Create fails, "write" when WriteString fails. After a failed
\* os.Create the function returns err, which is nil at that point.
SaveCharacterAccuracies(m, file, outcome) ==
  CASE outcome = "ok" -> [file |-> FileOf(m), err |-> FALSE]
    [] outcome = "create" -> [file |-> file, err |-> FALSE]
    [] outcome = "write" -> [file |-> FileTruncated, err |-> TRUE]

\* the loop of newGame without the test "if _, ok := ...; !ok"
Seed_Reset(m, chars) ==
  [c \in DOMAIN m \cup Range(chars) |->
     IF c \in Range(chars) THEN SeedAccuracy ELSE m[c]]

\* the loop of newGame that seeds the characters without an entry
Seed(m, chars) ==
  [c \in DOMAIN m \cup Range(chars) |->
     IF c \in DOMAIN m THEN m[c] ELSE SeedAccuracy]

\* the handler sets the input capture itself, as cmd/LayoutLearner does
Send_Direct(f, at) ==
  /\ sendVal' = f
  /\ pc' = at
  /\ inputCapture' = f
  /\ UNCHANGED <<updates, coord, changeFunc>>

\* "inputCaptureChangeChan <- f": the goroutine blocks in the send at
\* position at
Send(f, at) ==
  /\ sendVal' = f
  /\ pc' = at
  /\ UNCHANGED <<inputCapture, updates, coord, changeFunc>>

\* a handler returns to the event loop, which ends after App.Stop()
Return(stop) ==
  /\ pc' = IF stop THEN "exit" ELSE "run"
  /\ UNCHANGED <<sendVal, inputCapture, updates, coord, changeFunc>>

\* newGame, up to its send or the end of the process
newGame(from) ==
  /\ caller' = from
  /\ IF NumChars > Len(CharacterPriorities)
     THEN \* the slice expression panics
          /\ pc' = "panic"
          /\ last' = "panic"
          /\ UNCHANGED <<gameVars, screen, accuracies, io, clean, sendVal,
                         inputCapture, updates, coord, changeFunc>>
     ELSE LET chars == SubSeq(CharacterPriorities, 1, NumChars) IN
          \E priority \in getPriorityCharacter(CharacterAccuracies, chars) :
            /\ CurrentChars' = chars
            /\ PriorityCharacter' = priority
            /\ \/ \* the word file cannot be opened
                  /\ screen' = [kind |-> "error"]
                  /\ last' = "newGameFailed"
                  /\ Send(endScreenInputHandler, "newGame_send")
                  /\ UNCHANGED <<Words, CurrentCharIndex, CharacterAccuracies,
                                 Correct, Incorrect, Started, accuracies, io,
                                 clean>>
               \/ /\ GetWordsFromCharsPanics(Corpus, chars, priority,
                                             MinWordLength, MaxWordLength)
                  /\ pc' = "panic"
                  /\ last' = "panic"
                  /\ UNCHANGED <<Words, CurrentCharIndex, CharacterAccuracies,
                                 Correct, Incorrect, Started, accuracies, io,
                                 clean, screen, sendVal, inputCapture,
                                 updates, coord, changeFunc>>
               \/ /\ ~GetWordsFromCharsPanics(Corpus, chars, priority,
                                              MinWordLength, MaxWordLength)
                  /\ \E wordsList \in
                          GetWordsFromChars(Corpus, chars, priority,
                                            MinWordLength, MaxWordLength,
                                            WordCount) :
                       Words' = JoinWords(wordsList)
                  /\ CharacterAccuracies' = Seed(CharacterAccuracies, chars)
                  /\ CurrentCharIndex' = 0
                  /\ Correct' = 0
                  /\ Incorrect' = 0
                  /\ Started' = FALSE
                  /\ screen' = [kind |-> "text"]
                  /\ clean' = TRUE
                  /\ \E outcome \in {"ok", "create", "write"} :
                       LET saved == SaveCharacterAccuracies(
                                      CharacterAccuracies', accuracies,
                                      outcome)
                       IN  /\ io' = outcome
                           /\ accuracies' = saved.file
                           /\ IF saved.err
                              THEN \* log.Fatalln
                                   /\ pc' = "fatal"
                                   /\ last' = "fatal"
                                   /\ UNCHANGED <<sendVal, inputCapture,
                                                  updates, coord, changeFunc>>
                              ELSE /\ last' = "newGame"
                                   /\ Send(gameInputHandler, "newGame_send")

\* a backspace that moves the index forward
StepBack_Forward(index) == index + 1

\* a backspace that leaves the index where it is
StepBack_Stay(index) == index

\* the backspace without "if gameCtx.CurrentCharIndex < 0"
StepBack_NoFloor(index) == index - 1

\* gameInputHandler lines 22-23: the index after a backspace
StepBack(index) == IF index - 1 < 0 THEN 0 ELSE index - 1

\* the end test on len(gameCtx.Words) instead of len(gameCtx.Words) - 1
ReachedEnd_Full(index, words) == index >= Len(words)

\* gameInputHandler line 55: the lesson is over
ReachedEnd(index, words) == index >= Len(words) - 1

\* the time of a correct keystroke added to every entry
AddTime_All(m, char, elapsed) ==
  [c \in DOMAIN m |->
     [m[c] EXCEPT !.TotalTime = @ + elapsed,
                  !.AverageTime =
                    IF m[c].Attempts > 0
                    THEN (m[c].TotalTime + elapsed) \div m[c].Attempts
                    ELSE 0]]

\* gameInputHandler lines 37-41: the time of a correct keystroke is added
\* after updateAccuracy has run
AddTime(m, char, elapsed) ==
  LET ca == Lookup(m, char)
      total == ca.TotalTime + elapsed
  IN  Store(m, char, [ca EXCEPT !.TotalTime = total,
                                !.AverageTime = total \div ca.Attempts])

\* gameInputHandler on one key event. MainColorMap is as long as Words;
\* an index out of range panics.
GameInput(event) ==
  LET stop == stopped \/ event.key = "Escape" IN
  /\ stopped' = stop
  /\ UNCHANGED <<Words, PriorityCharacter, CurrentChars, accuracies, io,
                 caller>>
  /\ IF CurrentCharIndex >= Len(Words)
     THEN /\ pc' = "panic"
          /\ last' = "panic"
          /\ UNCHANGED <<CurrentCharIndex, CharacterAccuracies, Correct,
                         Incorrect, Started, screen, clean, sendVal,
                         inputCapture, updates, coord, changeFunc>>
     ELSE IF event.key = "Backspace"
     THEN /\ CurrentCharIndex' = StepBack(CurrentCharIndex)
          /\ screen' = [kind |-> "text"]
          /\ last' = "backspace"
          /\ clean' = FALSE
          /\ Return(stop)
          /\ UNCHANGED <<CharacterAccuracies, Correct, Incorrect, Started>>
     ELSE LET char == Words[CurrentCharIndex + 1]
              success == event.rune = char
              updated == updateAccuracy(CharacterAccuracies, char, success)
          IN  /\ IF success
                 THEN /\ IF ~Started
                         THEN /\ Started' = TRUE
                              /\ CharacterAccuracies' = updated
                         ELSE /\ Started' = Started
                              /\ \E elapsed \in ElapsedMs :
                                   CharacterAccuracies' =
                                     AddTime(updated, char, elapsed)
                      /\ Correct' = Correct + 1
                      /\ Incorrect' = Incorrect
                 ELSE /\ CharacterAccuracies' = updated
                      /\ Incorrect' = Incorrect + 1
                      /\ UNCHANGED <<Correct, Started>>
              /\ CurrentCharIndex' = CurrentCharIndex + 1
              /\ last' = IF success THEN "correct" ELSE "incorrect"
              /\ clean' = (clean /\ success)
              /\ IF ReachedEnd(CurrentCharIndex', Words)
                 THEN /\ screen' = ShowEndScreen(Correct', Incorrect')
                      /\ Send(endScreenInputHandler, "gameInputHandler_send")
                 ELSE /\ screen' = [kind |-> "text"]
                      /\ Return(stop)

\* endScreenInputHandler on one key event, up to the send of newGame
EndScreenInput(event) ==
  IF event.key = "Enter"
  THEN /\ newGame("endScreenInputHandler")
       /\ UNCHANGED stopped
  ELSE /\ stopped' = (stopped \/ event.key = "Escape")
       /\ last' = IF event.key = "Escape" THEN "quit" ELSE "ignored"
       /\ Return(stopped')
       /\ UNCHANGED <<gameVars, screen, accuracies, io, caller, clean>>

(***************************************************************************)
(* The steps of the two goroutines.                                        *)
(***************************************************************************)
\* StartGame line 105: the first lesson, before App.Run
StartNewGame ==
  /\ pc = "StartGame"
  /\ newGame("StartGame")
  /\ UNCHANGED <<CharacterPriorities, stopped, keys, gen>>

\* the event loop of App.Run hands a key event to the input capture
GameKey ==
  /\ pc = "run"
  /\ inputCapture = gameInputHandler
  /\ keys < MaxKeys
  /\ keys' = keys + 1
  /\ \E event \in KeyEvents : GameInput(event)
  /\ UNCHANGED <<CharacterPriorities, gen>>

EndScreenKey ==
  /\ pc = "run"
  /\ inputCapture = endScreenInputHandler
  /\ keys < MaxKeys
  /\ keys' = keys + 1
  /\ \E event \in KeyEvents : EndScreenInput(event)
  /\ UNCHANGED <<CharacterPriorities, gen>>

\* the receive when endScreenInputHandler sends itself after newGame
Receive_EndScreen ==
  /\ coord = "recv"
  /\ pc \in {"newGame_send", "endScreenInputHandler_send",
             "gameInputHandler_send"}
  /\ changeFunc' = sendVal
  /\ coord' = "queue"
  /\ IF pc = "newGame_send" /\ caller = "endScreenInputHandler"
     THEN /\ screen' = [kind |-> "text"]
          /\ sendVal' = endScreenInputHandler
          /\ pc' = "endScreenInputHandler_send"
     ELSE /\ sendVal' = "none"
          /\ pc' = IF stopped THEN "exit" ELSE "run"
          /\ UNCHANGED screen
  /\ UNCHANGED <<gameVars, CharacterPriorities, inputCapture, updates,
                 stopped, caller, accuracies, io, keys, last, clean, gen>>

\* "changeFunc := <-inputCaptureChangeChan" meets a blocked send: the
\* channel has no buffer. The sender goes on to its next send or returns.
Receive ==
  /\ coord = "recv"
  /\ pc \in {"newGame_send", "endScreenInputHandler_send",
             "gameInputHandler_send"}
  /\ changeFunc' = sendVal
  /\ coord' = "queue"
  /\ IF pc = "newGame_send" /\ caller = "endScreenInputHandler"
     THEN \* endScreenInputHandler lines 76-79
          /\ screen' = [kind |-> "text"]
          /\ sendVal' = gameInputHandler
          /\ pc' = "endScreenInputHandler_send"
     ELSE /\ sendVal' = "none"
          /\ pc' = IF stopped THEN "exit" ELSE "run"
          /\ UNCHANGED screen
  /\ UNCHANGED <<gameVars, CharacterPriorities, inputCapture, updates,
                 stopped, caller, accuracies, io, keys, last, clean, gen>>

\* App.QueueUpdate losing the function it was given
QueueUpdate_Dropped ==
  /\ coord = "queue"
  /\ updates' = updates
  /\ coord' = "recv"
  /\ UNCHANGED <<gameVars, CharacterPriorities, screen, inputCapture, stopped,
                 pc, caller, sendVal, changeFunc, accuracies, io, keys, last,
                 clean, gen>>

\* StartGame lines 99-101: App.QueueUpdate
QueueUpdate ==
  /\ coord = "queue"
  /\ updates' = Append(updates, changeFunc)
  /\ coord' = "recv"
  /\ UNCHANGED <<gameVars, CharacterPriorities, screen, inputCapture, stopped,
                 pc, caller, sendVal, changeFunc, accuracies, io, keys, last,
                 clean, gen>>

\* the event loop of App.Run runs a queued update: SetInputCapture
ApplyUpdate ==
  /\ pc = "run"
  /\ updates # <<>>
  /\ inputCapture' = Head(updates)
  /\ updates' = Tail(updates)
  /\ UNCHANGED <<gameVars, CharacterPriorities, screen, stopped, pc, caller,
                 sendVal, coord, changeFunc, accuracies, io, keys, last,
                 clean, gen>>

Next ==
  \/ StartNewGame
  \/ GameKey
  \/ EndScreenKey
  \/ Receive
  \/ QueueUpdate
  \/ ApplyUpdate

Spec == Init /\ [][Next]_vars

\* the same program started on the file of another word file
SpecForeign == InitForeign /\ [][Next]_vars

\* the first run of the program: StartGame finds no file "accuracies"
InitFirstRun == InitFrom({EmptyMap}) /\ gen = NoCall

\* the goroutine of StartGame is a loop of a receive and App.QueueUpdate
\* that nothing else delays, and the event loop of App.Run selects between
\* its key events and its queued updates: a step of theirs that stays
\* possible is taken
SpecFair ==
  /\ InitFirstRun
  /\ [][Next]_vars
  /\ WF_vars(Receive)
  /\ WF_vars(QueueUpdate)
  /\ WF_vars(ApplyUpdate)

(***************************************************************************)
(* dictionary.GenerateWord on its own: a call with arguments that are      *)
(* valid for rand.Intn, the game not started.                              *)
(***************************************************************************)
\* the largest maxLength of a call
MaxLengthArg == 7

\* the character slices of a call
CharSlices == {<<"a">>, <<"a", "b">>, <<"a", "b", "c">>}

Called(chars, priorityCharacter, minLength, maxLength) ==
  [at |-> "called", chars |-> chars, priorityCharacter |-> priorityCharacter,
   minLength |-> minLength, maxLength |-> maxLength, length |-> 0,
   priorityPosition |-> 0, word |-> <<>>]

GenerateWordCalls ==
  UNION {{Called(chars, chars[k], minLength, maxLength) :
            k \in 1..Len(chars), minLength \in 1..MaxLengthArg,
            maxLength \in 1..MaxLengthArg}
         : chars \in CharSlices}

InitGenerateWord ==
  /\ InitFrom({EmptyMap})
  /\ gen \in {call \in GenerateWordCalls :
                ~GenerateWordPanics(call.minLength, call.maxLength)}

\* one call of GenerateWord, from its two draws to its return
CallGenerateWord ==
  /\ gen.at = "called"
  /\ \E length \in Lengths(gen.minLength, gen.maxLength) :
       \E priorityPosition \in PriorityPositions(length) :
         \E word \in GenerateWordWith(gen.chars, gen.priorityCharacter,
                                      length, priorityPosition) :
           gen' = [gen EXCEPT !.at = "returned", !.length = length,
                              !.priorityPosition = priorityPosition,
                              !.word = word]
  /\ UNCHANGED <<gameVars, CharacterPriorities, screen, inputCapture,
                 updates, stopped, pc, caller, sendVal, coord, changeFunc,
                 accuracies, io, keys, last, clean>>

NextGenerateWord == CallGenerateWord

SpecGenerateWord == InitGenerateWord /\ [][NextGenerateWord]_vars

(***************************************************************************)
(* dictionary.GetWordsFromChars on its own, on a readable word file.       *)
(***************************************************************************)
\* word files with 0 to 4 words over a and b, and the word file of the game
SampleCorpora == {SubSeq(Corpus, 1, n) : n \in 0..4} \cup {Corpus}

\* a character no word file has
ForeignChar == "z"

\* minLength and maxLength of a call: the settings of the game, and one
\* length only
LengthArgs == {<<MinWordLength, MaxWordLength>>, <<3, 3>>}

\* the argument amount of a call
Amounts == {1, 2}

\* the slice of newGame, Settings.NumChars characters long
GameSlice == <<"a", "b", "c", "d", "e">>

Sampled(corpus, chars, priorityChar, minLength, maxLength, amount) ==
  [at |-> "called", corpus |-> corpus, chars |-> chars,
   priorityChar |-> priorityChar, minLength |-> minLength,
   maxLength |-> maxLength, amount |-> amount, pool |-> 0,
   selectedWords |-> <<>>]

\* calls on two or three characters, and calls as newGame makes them, the
\* priority character being one of chars or not
GetWordsFromCharsCalls ==
  {Sampled(corpus, chars, priorityChar, lengths[1], lengths[2], amount) :
     corpus \in SampleCorpora, chars \in CharSlices \ {<<"a">>},
     priorityChar \in {"a", "b", ForeignChar}, lengths \in LengthArgs,
     amount \in Amounts}
  \cup {Sampled(corpus, GameSlice, priorityChar, MinWordLength,
                MaxWordLength, 1) :
          corpus \in {<<>>, SubSeq(Corpus, 1, 3), Corpus},
          priorityChar \in {"a", ForeignChar}}

InitGetWordsFromChars ==
  /\ InitFrom({EmptyMap})
  /\ gen \in GetWordsFromCharsCalls

\* one call of GetWordsFromChars: it panics in rand.Intn, or returns
\* selectedWords; pool is len(words) at the selection
CallGetWordsFromChars ==
  /\ gen.at = "called"
  /\ IF GetWordsFromCharsPanics(gen.corpus, gen.chars, gen.priorityChar,
                                gen.minLength, gen.maxLength)
     THEN gen' = [gen EXCEPT !.at = "panic"]
     ELSE \E words \in WordPools(gen.corpus, gen.chars, gen.priorityChar,
                                  gen.minLength, gen.maxLength) :
            \E selectedWords \in SelectWords(words, gen.amount) :
              gen' = [gen EXCEPT !.at = "returned", !.pool = Len(words),
                                 !.selectedWords = selectedWords]
  /\ UNCHANGED <<gameVars, CharacterPriorities, screen, inputCapture,
                 updates, stopped, pc, caller, sendVal, coord, changeFunc,
                 accuracies, io, keys, last, clean>>

NextGetWordsFromChars == CallGetWordsFromChars

SpecGetWordsFromChars ==
  InitGetWordsFromChars /\ [][NextGetWordsFromChars]_vars

(***************************************************************************)
(* dictionary.GetCharacterPriority on its own, on a readable word file.    *)
(***************************************************************************)
\* the most lines a word file has
MaxLines == 3

\* the lines of the word files
Lines ==
  {<<"a">>, <<"A", "b">>, <<"b", "a">>, <<"c">>, <<"b", "B", "c">>}

WordFiles == UNION {[1..n -> Lines] : n \in 0..MaxLines}

InitGetCharacterPriority ==
  /\ InitFrom({EmptyMap})
  /\ gen \in {[at |-> "called", corpus |-> corpus, characters |-> <<>>] :
                corpus \in WordFiles}

\* one call of GetCharacterPriority
CallGetCharacterPriority ==
  /\ gen.at = "called"
  /\ \E characters \in GetCharacterPriority(gen.corpus) :
       gen' = [gen EXCEPT !.at = "returned", !.characters = characters]
  /\ UNCHANGED <<gameVars, CharacterPriorities, screen, inputCapture,
                 updates, stopped, pc, caller, sendVal, coord, changeFunc,
                 accuracies, io, keys, last, clean>>

NextGetCharacterPriority == CallGetCharacterPriority

SpecGetCharacterPriority ==
  InitGetCharacterPriority /\ [][NextGetCharacterPriority]_vars

(***************************************************************************)
(* gamelogic.updateAccuracy on its own, on the map StartGame loaded: a     *)
(* character is absent from the map or has the entry newGame seeds.        *)
(***************************************************************************)
\* the most attempts on one character
MaxAttempts == 4

\* the characters attempted
AttemptedChars == {"a", "b"}

InitUpdateAccuracy ==
  /\ InitFrom(LoadedAccuracies)
  /\ gen = [at |-> "updateAccuracy",
            successes |-> [c \in AttemptedChars |-> 0],
            attempts |-> [c \in AttemptedChars |-> 0]]

\* one call of updateAccuracy; gen counts the calls and the successes
CallUpdateAccuracy ==
  /\ gen.at = "updateAccuracy"
  /\ \E char \in AttemptedChars, success \in BOOLEAN :
       /\ gen.attempts[char] < MaxAttempts
       /\ CharacterAccuracies' =
            updateAccuracy(CharacterAccuracies, char, success)
       /\ gen' = [gen EXCEPT !.attempts[char] = @ + 1,
                             !.successes[char] =
                               IF success THEN @ + 1 ELSE @]
  /\ UNCHANGED <<Words, CurrentCharIndex, PriorityCharacter, CurrentChars,
                 Correct, Incorrect, Started, CharacterPriorities, screen,
                 inputCapture, updates, stopped, pc, caller, sendVal, coord,
                 changeFunc, accuracies, io, keys, last, clean>>

NextUpdateAccuracy == CallUpdateAccuracy

SpecUpdateAccuracy == InitUpdateAccuracy /\ [][NextUpdateAccuracy]_vars

(***************************************************************************)
(* The accuracy and the score of updateAccuracy on one entry, for several  *)
(* values of Settings.TargetCPM.                                           *)
(***************************************************************************)
\* the setting of StartGame, 0, the largest value with a target speed of
\* 1 ms and the smallest with one of 0 ms
TargetCPMs == {TargetCPM, 0, 60000, 60001}

\* the entries a call finds: Attempts up to MaxAttempts
EntriesBefore ==
  {[Correct |-> k, Attempts |-> n, AverageTime |-> t] :
     k \in 0..MaxAttempts, n \in 0..MaxAttempts, t \in {0} \cup ElapsedMs}

InitScore ==
  /\ InitFrom({EmptyMap})
  /\ gen \in {[at |-> "called", targetCPM |-> targetCPM, ca |-> ca,
                success |-> success, accuracy |-> FromInt(0),
                score |-> [kind |-> "none"]] :
                targetCPM \in TargetCPMs,
                ca \in {e \in EntriesBefore : e.Correct <= e.Attempts},
                success \in BOOLEAN}

\* one call of updateAccuracy on the entry gen.ca
CallScore ==
  /\ gen.at = "called"
  /\ LET attempts == gen.ca.Attempts + 1
         correct == IF gen.success THEN gen.ca.Correct + 1
                    ELSE gen.ca.Correct
         accuracy == IF attempts > 0 THEN Frac(correct, attempts)
                     ELSE FromInt(0)
         score == ScoreWith(gen.targetCPM, accuracy, gen.ca.AverageTime)
     IN  gen' = [gen EXCEPT !.at = IF score.kind = "panic" THEN "panic"
                                  ELSE "returned",
                            !.accuracy = accuracy, !.score = score]
  /\ UNCHANGED <<gameVars, CharacterPriorities, screen, inputCapture,
                 updates, stopped, pc, caller, sendVal, coord, changeFunc,
                 accuracies, io, keys, last, clean>>

NextScore == CallScore

SpecScore == InitScore /\ [][NextScore]_vars

(***************************************************************************)
(* Properties.                                                             *)
(***************************************************************************)
\* newGame has just chosen the priority character
JustSelected == last \in {"newGame", "newGameFailed", "fatal"}

\* gameInputHandler is blocked in its send of endScreenInputHandler
EndRequested ==
  pc = "gameInputHandler_send" /\ sendVal = endScreenInputHandler

\* C1: when every key of a lesson was the character at the cursor and no
\* backspace was pressed, the keystroke that brings the cursor to
\* len(text)-1 shows the end screen with Correct = len(text)-1,
\* Incorrect = 0 and an accuracy of 100.
C1_AllCorrectLesson ==
  (clean /\ last = "correct" /\ CurrentCharIndex = Len(Words) - 1)
    => /\ Correct = Len(Words) - 1
       /\ Incorrect = 0
       /\ screen = [kind |-> "end", accuracy |-> FromInt(100)]

C1_Witness ==
  /\ clean /\ last = "correct" /\ CurrentCharIndex = Len(Words) - 1
  /\ EndRequested
  /\ Correct = 3

\* C2: the cursor stays within 0..len(text) in every reachable state.
C2_CursorInRange ==
  0 <= CurrentCharIndex /\ CurrentCharIndex <= Len(Words)

C2_Witness ==
  /\ Words # <<>>
  /\ CurrentCharIndex = Len(Words)
  /\ last \in {"correct", "incorrect"}

\* C3: a keystroke of gameInputHandler that is no backspace requests the
\* end screen exactly when the advanced cursor has reached len(text)-1; a
\* backspace requests nothing.
C3_EndAtLastButOne ==
  [][(keys' = keys + 1 /\ inputCapture = gameInputHandler)
       => /\ last' \in {"correct", "incorrect"}
               => (EndRequested' <=> CurrentCharIndex' >= Len(Words') - 1)
          /\ last' = "backspace" => pc' \in {"run", "exit"}]_vars

C3_Witness ==
  /\ EndRequested
  /\ CurrentCharIndex = Len(Words) - 1
  /\ last = "incorrect"

\* C4: after a lesson generation the priority character is one of the
\* current characters.
C4_PriorityInCurrentChars ==
  JustSelected => PriorityCharacter \in Range(CurrentChars)

\* C5: when a current character was never attempted, the priority
\* character newGame selects was never attempted either.
C5_UnseenFirst ==
  (JustSelected
     /\ \E c \in Range(CurrentChars) :
          Lookup(CharacterAccuracies, c).Attempts = 0)
    => Lookup(CharacterAccuracies, PriorityCharacter).Attempts = 0

\* C6: the score of every attempted character is above -1, the score of a
\* character never attempted.
C6_ScoreAboveUnseen ==
  \A c \in DOMAIN CharacterAccuracies :
    CharacterAccuracies[c].Attempts >= 1
      => FLess(FromInt(-1), CharacterAccuracies[c].Score)

\* C7: the selected priority character is a current character other than
\* the space, and no current character other than the space has a lower
\* score (a character without an entry counting as -1).
C7_LowestScoreSelected ==
  JustSelected =>
    LET score(c) == IF c \in DOMAIN CharacterAccuracies
                    THEN CharacterAccuracies[c].Score ELSE FromInt(-1)
    IN  /\ PriorityCharacter \in Range(CurrentChars) \ {Space}
        /\ \A c \in Range(CurrentChars) \ {Space} :
             FLeq(score(PriorityCharacter), score(c))

\* C8: after a confirm whose lesson generation could not read the word
\* file, once every requested handoff is installed the input capture is
\* endScreenInputHandler.
C8_FailedRegenerationEndsOnEndScreen ==
  (/\ last = "newGameFailed"
   /\ caller = "endScreenInputHandler"
   /\ pc = "run" /\ coord = "recv" /\ updates = <<>>)
    => inputCapture = endScreenInputHandler

\* C9: after a save on which os.Create or WriteString failed, the process
\* has terminated.
C9_SaveFailureIsFatal ==
  io \in {"create", "write"} => pc = "fatal"

\* C10: the input capture changes only in a step of the event loop between
\* two handler calls, to the function at the head of the queued updates;
\* the queue receives only what the goroutine of StartGame took from the
\* channel, and that goroutine takes only what a blocked send offers.
C10_HandlerInstalledOutsideHandlers ==
  [][/\ inputCapture' # inputCapture
          => /\ pc = "run" /\ pc' = "run"
             /\ keys' = keys
             /\ updates # <<>>
             /\ inputCapture' = Head(updates)
     /\ Len(updates') > Len(updates)
          => /\ coord = "queue"
             /\ updates' = Append(updates, changeFunc)
     /\ changeFunc' # changeFunc
          => /\ pc \in {"newGame_send", "endScreenInputHandler_send",
                        "gameInputHandler_send"}
             /\ changeFunc' = sendVal]_vars

C10_Witness ==
  /\ inputCapture = endScreenInputHandler
  /\ pc = "run"
  /\ last \in {"correct", "incorrect"}

\* the event loop is idle and every requested handoff is installed
Settled == pc = "run" /\ coord = "recv" /\ updates = <<>>

\* the handoffs requested and not yet installed: the send a handler is
\* blocked in, the function the goroutine of StartGame has received and
\* not queued, and the queued updates
PendingHandoffs ==
  (IF pc \in {"newGame_send", "endScreenInputHandler_send",
              "gameInputHandler_send"} THEN 1 ELSE 0)
  + (IF coord = "queue" THEN 1 ELSE 0) + Len(updates)

\* C11: in every reachable state at most one handler handoff is requested
\* and not yet installed.
C11_AtMostOnePendingHandoff == PendingHandoffs <= 1

\* C12: a backspace handled by gameInputHandler sets the cursor to
\* max(cursor-1, 0), returns to the event loop and changes neither the
\* character statistics, Correct, Incorrect, Started, the lesson, the file
\* nor any part of the handler handoff.
C12_BackspaceMovesCursorOnly ==
  [][(keys' = keys + 1 /\ inputCapture = gameInputHandler
        /\ last' = "backspace")
       => /\ CurrentCharIndex' =
               (IF CurrentCharIndex - 1 > 0 THEN CurrentCharIndex - 1 ELSE 0)
          /\ pc' = "run"
          /\ UNCHANGED <<CharacterAccuracies, Correct, Incorrect, Started,
                         Words, PriorityCharacter, CurrentChars,
                         inputCapture, updates, coord, sendVal, changeFunc,
                         stopped, accuracies>>]_vars

C12_Witness ==
  /\ last = "backspace"
  /\ CurrentCharIndex = 1
  /\ Correct = 1 /\ Incorrect = 1
  /\ Lookup(CharacterAccuracies, Words[2]).Attempts = 1

\* C13: a keystroke handled by gameInputHandler that is neither a backspace
\* nor Escape adds 1 to Attempts of the character at the cursor, adds 1 to
\* its Correct exactly when the key is that character, adds 1 to exactly
\* one of Correct and Incorrect of the lesson, moves the cursor forward by
\* 1 and leaves Attempts and Correct of every other character as they were.
C13_KeystrokeCountsOnce ==
  [][(keys' = keys + 1 /\ inputCapture = gameInputHandler
        /\ last' \in {"correct", "incorrect"} /\ stopped' = stopped)
       => LET char == Words[CurrentCharIndex + 1]
              hit == IF last' = "correct" THEN 1 ELSE 0
              before(c) == Lookup(CharacterAccuracies, c)
              after(c) == Lookup(CharacterAccuracies', c)
          IN  /\ after(char).Attempts = before(char).Attempts + 1
              /\ after(char).Correct = before(char).Correct + hit
              /\ Correct' = Correct + hit
              /\ Incorrect' = Incorrect + (1 - hit)
              /\ CurrentCharIndex' = CurrentCharIndex + 1
              /\ \A c \in (DOMAIN CharacterAccuracies
                            \cup DOMAIN CharacterAccuracies') \ {char} :
                   /\ after(c).Attempts = before(c).Attempts
                   /\ after(c).Correct = before(c).Correct]_vars

C13_Witness ==
  /\ last = "incorrect"
  /\ pc = "run"
  /\ Correct = 1 /\ Incorrect = 1
  /\ CurrentCharIndex = 2
  /\ Lookup(CharacterAccuracies, Words[2]).Attempts = 1
  /\ Lookup(CharacterAccuracies, Words[2]).Correct = 0

\* C14: an Escape handled by gameInputHandler ends the event loop with
\* the character statistics, Correct, Incorrect and the cursor as they
\* were, and without a send on the channel.
C14_QuitIsNoKeystroke ==
  [][(keys' = keys + 1 /\ inputCapture = gameInputHandler
        /\ stopped' /\ ~stopped)
       => /\ pc' = "exit"
          /\ UNCHANGED <<CharacterAccuracies, Correct, Incorrect,
                         CurrentCharIndex>>]_vars

\* C15: an Enter handled by endScreenInputHandler whose newGame built a
\* lesson leaves the cursor at 0, Correct and Incorrect at 0 and Started
\* false, with gameInputHandler offered on the channel; once the event
\* loop is idle and every handoff is installed, with no key in between,
\* the input capture is gameInputHandler.
C15_ConfirmStartsNewSession ==
  [][/\ (keys' = keys + 1 /\ inputCapture = endScreenInputHandler
           /\ last' = "newGame")
          => /\ CurrentCharIndex' = 0
             /\ Correct' = 0 /\ Incorrect' = 0
             /\ Started' = FALSE
             /\ pc' = "newGame_send" /\ sendVal' = gameInputHandler
     /\ (last' = "newGame" /\ caller' = "endScreenInputHandler" /\ Settled')
          => inputCapture' = gameInputHandler]_vars

C15_Witness ==
  /\ last = "newGame" /\ caller = "endScreenInputHandler"
  /\ Settled
  /\ inputCapture = gameInputHandler
  /\ CurrentCharIndex = 0 /\ Correct = 0 /\ Incorrect = 0 /\ ~Started
  /\ io = "ok"

\* C16: right after a newGame that built a lesson and went on, the file
\* "accuracies" holds the map as it is in memory after seeding.
C16_FileHoldsMapAfterGeneration ==
  last = "newGame" => accuracies = FileOf(CharacterAccuracies)

\* C17: the word a call of GenerateWord returns has a length of at least
\* minLength and below maxLength.
C17_LengthInRange ==
  gen.at = "returned"
    => gen.minLength <= Len(gen.word) /\ Len(gen.word) < gen.maxLength

\* C18: the word a call of GenerateWord returns contains the priority
\* character, whatever length, priority position and characters were
\* drawn, also when the loop broke off before the drawn length.
C18_ContainsPriority ==
  gen.at = "returned" => gen.priorityCharacter \in Range(gen.word)

C18_Witness ==
  /\ gen.at = "returned"
  /\ Len(gen.word) < gen.length
  /\ gen.priorityPosition = gen.length - 1
  /\ Len(gen.chars) = 2
  /\ gen.priorityCharacter \in Range(gen.word)

\* C19: in the word a call of GenerateWord returns, no character occurs
\* more often than the drawn length divided by 2, rounded up.
C19_UsageWithinHalf ==
  gen.at = "returned"
    => \A c \in Range(gen.word) :
         Cardinality({i \in 1..Len(gen.word) : gen.word[i] = c})
           <= (gen.length + 1) \div 2

\* C20: the word a call of GenerateWord returns has no three equal
\* characters in a row.
C20_NoRunOfThree ==
  gen.at = "returned"
    => \A i \in 1..(Len(gen.word) - 2) :
         ~(gen.word[i] = gen.word[i + 1] /\ gen.word[i + 1] = gen.word[i + 2])

\* the words of the file that pass the scan of the call
Matches ==
  MatchingWords(gen.corpus, gen.chars, gen.priorityChar, gen.minLength,
                gen.maxLength)

\* C21: a call of GetWordsFromChars with the priority character in chars
\* and minLength < maxLength returns amount words, each of characters of
\* chars only, of a length from minLength to maxLength and with the
\* priority character in it.
C21_SampleReturnsValidWords ==
  (/\ gen.at # "called"
   /\ gen.priorityChar \in Range(gen.chars)
   /\ gen.minLength < gen.maxLength)
    => /\ gen.at = "returned"
       /\ Len(gen.selectedWords) = gen.amount
       /\ \A k \in 1..Len(gen.selectedWords) :
            LET word == gen.selectedWords[k]
            IN  /\ Range(word) \subseteq Range(gen.chars)
                /\ gen.minLength <= Len(word) /\ Len(word) <= gen.maxLength
                /\ gen.priorityChar \in Range(word)

\* C22: when fewer than 4 words of the file pass the scan, the list the
\* words are selected from has at least 4 words.
C22_PoolOfFour ==
  (gen.at = "returned" /\ Len(Matches) < 4) => gen.pool >= 4

\* C23: a call of GetWordsFromChars with minLength = maxLength and fewer
\* than 4 words of the file passing the scan returns, and every word it
\* returns has that length and the priority character in it.
C23_OneLengthOnly ==
  (/\ gen.at # "called"
   /\ gen.minLength = gen.maxLength
   /\ Len(Matches) < 4)
    => /\ gen.at = "returned"
       /\ \A k \in 1..Len(gen.selectedWords) :
            /\ Len(gen.selectedWords[k]) = gen.minLength
            /\ gen.priorityChar \in Range(gen.selectedWords[k])

\* C30: every word GetWordsFromChars returns to newGame, which passes
\* Settings.NumChars characters and the word lengths of the settings, has
\* the priority character in it, whether the word came from the file or
\* from GenerateWord and whether the priority character is one of the
\* characters passed or not.
C30_EveryWordHasPriority ==
  (/\ gen.at = "returned"
   /\ gen.chars = GameSlice
   /\ gen.minLength = MinWordLength /\ gen.maxLength = MaxWordLength)
    => \A k \in 1..Len(gen.selectedWords) :
         gen.priorityChar \in Range(gen.selectedWords[k])

C30_Witness ==
  /\ gen.at = "returned"
  /\ gen.chars = GameSlice
  /\ gen.priorityChar = ForeignChar
  /\ gen.pool = 2
  /\ Len(gen.selectedWords) = 1
  /\ Len(gen.selectedWords[1]) = 4
  /\ ForeignChar \in Range(gen.selectedWords[1])

\* the characters of the word file of the call in the order of the scan,
\* in lower case
RECURSIVE Scanned(_)
Scanned(corpus) ==
  IF corpus = <<>> THEN <<>>
  ELSE LowerWord(Head(corpus)) \o Scanned(Tail(corpus))

\* the place of the first occurrence of char in the scan
FirstSeen(corpus, char) ==
  CHOOSE i \in 1..Len(Scanned(corpus)) :
    /\ Scanned(corpus)[i] = char
    /\ \A j \in 1..(i - 1) : Scanned(corpus)[j] # char

\* GetCharacterPriority returned each character of the word file, in lower
\* case, exactly once
EachCharacterOnce ==
  /\ Range(gen.characters) = Range(Scanned(gen.corpus))
  /\ \A i, j \in 1..Len(gen.characters) :
       i # j => gen.characters[i] # gen.characters[j]

\* C24 as stated: GetCharacterPriority returns each character of the word
\* file, in lower case, exactly once, and each returned character occurs
\* strictly more often than the one after it.
C24_StrictlyDescending ==
  gen.at = "returned"
    => /\ EachCharacterOnce
       /\ \A i \in 1..(Len(gen.characters) - 1) :
            Occurrences(gen.corpus, gen.characters[i])
              > Occurrences(gen.corpus, gen.characters[i + 1])

\* C24 amended: GetCharacterPriority returns each character of the word
\* file, in lower case, exactly once, and each returned character occurs
\* at least as often as the one after it.
C24_Descending ==
  gen.at = "returned"
    => /\ EachCharacterOnce
       /\ \A i \in 1..(Len(gen.characters) - 1) :
            Occurrences(gen.corpus, gen.characters[i])
              >= Occurrences(gen.corpus, gen.characters[i + 1])

C24_Witness ==
  /\ gen.at = "returned"
  /\ Len(gen.characters) = 3
  /\ Occurrences(gen.corpus, gen.characters[1])
       > Occurrences(gen.corpus, gen.characters[2])
  /\ Occurrences(gen.corpus, gen.characters[2])
       = Occurrences(gen.corpus, gen.characters[3])

\* C25: of two characters GetCharacterPriority returns that occur equally
\* often, the one the scan saw first comes first.
C25_TiesInFirstSeenOrder ==
  gen.at = "returned"
    => \A i, j \in 1..Len(gen.characters) :
         (/\ i < j
          /\ Occurrences(gen.corpus, gen.characters[i])
               = Occurrences(gen.corpus, gen.characters[j]))
           => FirstSeen(gen.corpus, gen.characters[i])
                < FirstSeen(gen.corpus, gen.characters[j])

\* C26: after n >= 1 calls of updateAccuracy on a character that was
\* absent or freshly seeded, k of them with success, the entry of the
\* character has Correct = k, Attempts = n and Accuracy = k/n.
C26_AccuracyIsSuccessRate ==
  gen.at = "updateAccuracy"
    => \A c \in AttemptedChars :
         gen.attempts[c] >= 1
           => /\ Lookup(CharacterAccuracies, c).Correct = gen.successes[c]
              /\ Lookup(CharacterAccuracies, c).Attempts = gen.attempts[c]
              /\ Lookup(CharacterAccuracies, c).Accuracy
                   = Frac(gen.successes[c], gen.attempts[c])

C26_Witness ==
  /\ gen.at = "updateAccuracy"
  /\ gen.attempts["a"] = 3 /\ gen.successes["a"] = 2
  /\ gen.attempts["b"] = 1 /\ gen.successes["b"] = 0
  /\ Lookup(CharacterAccuracies, "a").Accuracy = Frac(2, 3)
  /\ Lookup(CharacterAccuracies, "b").Accuracy = FromInt(0)

\* C27: in every state every entry with Attempts >= 1 has
\* AverageTime = TotalTime div Attempts.
C27_AverageIsTotalOverAttempts ==
  \A c \in DOMAIN CharacterAccuracies :
    CharacterAccuracies[c].Attempts >= 1
      => CharacterAccuracies[c].AverageTime
           = CharacterAccuracies[c].TotalTime \div
               CharacterAccuracies[c].Attempts

\* C28: after gameInputHandler has handled a keystroke, the Score of the
\* character it was typed for is the score computed from the Accuracy and
\* the AverageTime the entry now has.
C28_ScoreFromCurrentAverage ==
  (last \in {"correct", "incorrect"})
    => LET ca == Lookup(CharacterAccuracies, Words[CurrentCharIndex])
       IN  ca.Score = ScoreOf(ca.Accuracy, ca.AverageTime)

\* C29: after gameInputHandler has handled a key that is no backspace and
\* no Escape, Started is true, whether the key was right or wrong.
C29_StartedAfterFirstKey ==
  (last \in {"correct", "incorrect"} /\ ~stopped) => Started

\* a step in which newGame ran to the end of its seeding loop
NewGameSeeded ==
  /\ pc = "StartGame" \/ (keys' = keys + 1
                           /\ inputCapture = endScreenInputHandler)
  /\ last' \in {"newGame", "fatal"}

\* a step in which gameInputHandler handled a key
GameKeyHandled ==
  keys' = keys + 1 /\ inputCapture = gameInputHandler

\* C31: newGame gives every character of CurrentChars without an entry
\* an entry with Attempts 0, Correct 0 and Score -1, and leaves every
\* entry the map had as it was.
C31_SeedingKeepsEntries ==
  [][NewGameSeeded
       => /\ \A c \in Range(CurrentChars') \ DOMAIN CharacterAccuracies :
               /\ c \in DOMAIN CharacterAccuracies'
               /\ CharacterAccuracies'[c].Attempts = 0
               /\ CharacterAccuracies'[c].Correct = 0
               /\ CharacterAccuracies'[c].Score = FromInt(-1)
          /\ \A c \in DOMAIN CharacterAccuracies :
               /\ c \in DOMAIN CharacterAccuracies'
               /\ CharacterAccuracies'[c] = CharacterAccuracies[c]]_vars

C31_Witness ==
  /\ last = "newGame" /\ caller = "StartGame"
  /\ accuracies = FileOf(CharacterAccuracies)
  /\ io = "ok" /\ keys = 0
  /\ Range(CurrentChars) = {"a", "b"}
  /\ CharacterAccuracies["b"].Attempts = 0
  /\ CharacterAccuracies["b"].Score = FromInt(-1)

\* C33: once a lesson is generated, gameInputHandler is never called with
\* CurrentCharIndex at or past len(Words), where it reads
\* Words[CurrentCharIndex].
C33_NoReadPastText ==
  [][(GameKeyHandled /\ Words # <<>>) => CurrentCharIndex < Len(Words)]_vars

\* C36: while the end screen is shown, Correct + Incorrect is at least 1
\* and the accuracy shown is the number Correct*100/(Correct+Incorrect).
C36_EndScreenAfterKeystroke ==
  screen.kind = "end"
    => /\ Correct + Incorrect >= 1
       /\ screen.accuracy = Frac(Correct * 100, Correct + Incorrect)

C36_Witness ==
  /\ screen.kind = "end"
  /\ keys = 5
  /\ Correct = 2 /\ Incorrect = 1
  /\ CurrentCharIndex = Len(Words) - 1

\* C37: a key other than a backspace handled by gameInputHandler adds 1
\* to Correct + Incorrect, a backspace adds nothing, newGame sets the sum
\* to 0 with the cursor, and the sum is never below the cursor.
C37_CountsKeystrokes ==
  [][/\ (GameKeyHandled /\ last' \in {"correct", "incorrect"})
          => Correct' + Incorrect' = Correct + Incorrect + 1
     /\ (GameKeyHandled /\ last' = "backspace")
          => Correct' + Incorrect' = Correct + Incorrect
     /\ NewGameSeeded
          => Correct' + Incorrect' = 0 /\ CurrentCharIndex' = 0
     /\ Correct' + Incorrect' >= CurrentCharIndex']_vars

C37_Witness ==
  /\ last = "correct"
  /\ keys = 4
  /\ Correct + Incorrect = 3
  /\ CurrentCharIndex = 2

\* C38: every entry has 0 <= Correct <= Attempts, no entry leaves the
\* map, and Attempts and Correct of an entry never get smaller.
C38_CountsGrow ==
  [][/\ \A c \in DOMAIN CharacterAccuracies' :
          /\ 0 <= CharacterAccuracies'[c].Correct
          /\ CharacterAccuracies'[c].Correct
               <= CharacterAccuracies'[c].Attempts
     /\ \A c \in DOMAIN CharacterAccuracies :
          /\ c \in DOMAIN CharacterAccuracies'
          /\ CharacterAccuracies'[c].Attempts
               >= CharacterAccuracies[c].Attempts
          /\ CharacterAccuracies'[c].Correct
               >= CharacterAccuracies[c].Correct]_vars

C38_Witness ==
  /\ caller = "endScreenInputHandler" /\ last = "correct"
  /\ Lookup(CharacterAccuracies, "a").Attempts = 3
  /\ Lookup(CharacterAccuracies, "a").Correct = 2

C32_NoDivisionByZero ==
  gen.at # "called" => gen.at = "returned" /\ gen.score.kind = "number"

\* C34: the word a call of GenerateWord returns does not have the
\* priority character twice in a row.
C34_NoDoubledPriority ==
  gen.at = "returned"
    => \A i \in 1..(Len(gen.word) - 1) :
         ~(gen.word[i] = gen.priorityCharacter
             /\ gen.word[i + 1] = gen.priorityCharacter)

\* the event loop of App.Run has ended: Stop, log.Fatal or a panic
Ended == pc \in {"exit", "fatal", "panic"}

\* a handler is blocked in a send on inputCaptureChangeChan
Sending ==
  pc \in {"newGame_send", "endScreenInputHandler_send",
          "gameInputHandler_send"}

\* C35 as stated: every handoff request is installed, so the program does
\* not end on Escape with a request that is not installed.
C35_EveryRequestInstalled == pc = "exit" => PendingHandoffs = 0

\* C35: with a fair goroutine of StartGame and a fair event loop, a
\* handoff request is installed or the event loop ends, no send blocks for
\* ever, the requests are installed in the order they were sent, and when
\* none is outstanding the installed handler is the last one requested.
C35_HandoffsInstalledInOrder ==
  /\ (PendingHandoffs > 0) ~> (PendingHandoffs = 0 \/ Ended)
  /\ Sending ~> ~Sending
  /\ [][/\ coord' # coord /\ coord = "recv"
             => changeFunc' = sendVal /\ updates' = updates
        /\ coord' # coord /\ coord = "queue"
             => updates' = Append(updates, changeFunc)
        /\ inputCapture' # inputCapture
             => /\ updates # <<>>
                /\ inputCapture' = Head(updates)
                /\ updates' = Tail(updates)
        /\ updates' # updates
             => \/ updates' = Append(updates, changeFunc)
                \/ updates # <<>> /\ updates' = Tail(updates)
                     /\ inputCapture' = Head(updates)]_vars
  /\ [](PendingHandoffs = 0 /\ changeFunc # "none"
          => inputCapture = changeFunc)

C35_Witness ==
  /\ Settled
  /\ keys > 0
  /\ last = "newGame"
  /\ changeFunc = gameInputHandler
  /\ inputCapture = gameInputHandler

====
